---- MODULE Spec2Model ----
(***************************************************************************)
(* Model of alisw/ci-overview.                                             *)
(*                                                                         *)
(*  Spec        the HTTP service of http.py: the background-update thread  *)
(*              (regenerate_output), the main thread (main), the serving   *)
(*              loop and the request handlers (do_HEAD / do_GET).          *)
(*  SpecConfig  check discovery: get_all_checks of overview.py (local      *)
(*              directory tree, with filters) and of checks.py (fetched    *)
(*              tree), run on a bounded set of definition trees.           *)
(*  SpecStatus  get_check_statuses of overview.py and of pull_requests.py, *)
(*              run on a bounded set of fetcher responses.                 *)
(*  SpecLayout  output_check_table of overview.py and                      *)
(*              TextOutput.overview_table of terminal.py, run on bounded   *)
(*              status lists and terminal widths.                          *)
(*  SpecFormat  format_status of overview.py, terminal.py and http.py and  *)
(*              get_status_url of pull_requests.py, run on bounded status  *)
(*              records.                                                   *)
(***************************************************************************)
EXTENDS Integers, Naturals, Sequences, FiniteSets, TLC

\* ------------------------------------------------------------------ bounds
MaxCycles == 2
NumHandlers == 2
MaxCheckFiles == 2
MaxPulls == 2
MaxStatuses == 3
MaxColumns == 11
MaxCreatedAt == 4

\* --------------------------------------------------------------- variables
VARIABLES
    \* http.py globals
    exit_event, html_page, metrics_page,
    \* os.environ has GITHUB_TOKEN
    github_token,
    \* background-update thread: position, number of the refresh cycle it is in
    \* (the first one begins when the thread starts), and history
    sched_pc, cycle, html_cycle, metrics_cycle, make_client_exited, raised_at,
    \* main thread and serving loop
    main_pc, server_pc, shutdown_request,
    \* request handler threads; h_stale: the global it serves was assigned
    \* again between its read in do_HEAD and its read in do_GET
    h_pc, h_path, h_status, h_length, h_body, h_stale,
    \* check discovery: which get_all_checks runs, its inputs (the definition
    \* tree and the four filter lists), its position, the paths still to
    \* visit, its results, and history (merged variables per visited check
    \* file, the check files appended to the result, the file that raised)
    cfg_impl, env_files, f_roles, f_containers, f_repos, f_checks,
    ga_pc, pending, name_table, all_checks, checks_list,
    merged_of, included, raised_on,
    \* get_check_statuses: which module's function runs, its arguments, the
    \* fetcher's response, its position (index of the next pull request), the
    \* statuses collected, and the exception that left it
    st_impl, st_repo, st_checks, st_names, response,
    st_pc, st_i, statuses, st_error,
    \* output_check_table / overview_table: the module it is taken from, the
    \* list as passed by the caller, the list itself (sorted in place), the
    \* terminal's width in columns (0: unknown), its position, its locals,
    \* the rows printed, and the exception that left it
    lay_impl, lay_input, pr_statuses, lay_columns,
    lay_pc, prnum_len, items_per_row, lay_rows, lay_error,
    \* format_status / get_status_url: the module it is taken from, the status
    \* record and recent_days passed, its position, what it returned, and the
    \* exception that left it
    fmt_impl, fmt_status, fmt_days, fmt_pc, fmt_result, fmt_error

format_vars ==
    <<fmt_impl, fmt_status, fmt_days, fmt_pc, fmt_result, fmt_error>>

layout_vars ==
    <<lay_impl, lay_input, pr_statuses, lay_columns,
      lay_pc, prnum_len, items_per_row, lay_rows, lay_error>>

status_vars ==
    <<st_impl, st_repo, st_checks, st_names, response,
      st_pc, st_i, statuses, st_error>>

config_vars ==
    <<cfg_impl, env_files, f_roles, f_containers, f_repos, f_checks,
      ga_pc, pending, name_table, all_checks, checks_list,
      merged_of, included, raised_on>>

service_vars ==
    <<exit_event, html_page, metrics_page, github_token,
      sched_pc, cycle, html_cycle, metrics_cycle, make_client_exited, raised_at,
      main_pc, server_pc, shutdown_request,
      h_pc, h_path, h_status, h_length, h_body, h_stale>>

vars ==
    <<service_vars, config_vars, status_vars, layout_vars, format_vars>>

outside_service ==
    <<config_vars, status_vars, layout_vars, format_vars>>

outside_config ==
    <<service_vars, status_vars, layout_vars, format_vars>>

outside_status ==
    <<service_vars, config_vars, layout_vars, format_vars>>

outside_layout ==
    <<service_vars, config_vars, status_vars, format_vars>>

outside_format ==
    <<service_vars, config_vars, status_vars, layout_vars>>

EmptyDict ==
    [k \in {} |-> ""]

\* check discovery not running
IdleConfig ==
    /\ cfg_impl = "none"
    /\ env_files = EmptyDict
    /\ f_roles = <<>>
    /\ f_containers = <<>>
    /\ f_repos = <<>>
    /\ f_checks = <<>>
    /\ ga_pc = "idle"
    /\ pending = {}
    /\ name_table = EmptyDict
    /\ all_checks = EmptyDict
    /\ checks_list = <<>>
    /\ merged_of = EmptyDict
    /\ included = {}
    /\ raised_on = {}

\* get_check_statuses not running
IdleStatus ==
    /\ st_impl = "none"
    /\ st_repo = <<>>
    /\ st_checks = <<>>
    /\ st_names = EmptyDict
    /\ response = <<>>
    /\ st_pc = "idle"
    /\ st_i = 0
    /\ statuses = EmptyDict
    /\ st_error = "none"

\* output_check_table not running
IdleLayout ==
    /\ lay_impl = "overview"
    /\ lay_input = <<>>
    /\ pr_statuses = <<>>
    /\ lay_columns = 0
    /\ lay_pc = "idle"
    /\ prnum_len = 0
    /\ items_per_row = 0
    /\ lay_rows = <<>>
    /\ lay_error = "none"

\* Optional[str]: None, or a string as the sequence of its parts
None ==
    [some |-> FALSE, url |-> <<>>]

Some(url) ==
    [some |-> TRUE, url |-> url]

\* format_status and get_status_url not running
IdleFormat ==
    /\ fmt_impl = "overview"
    /\ fmt_status = EmptyDict
    /\ fmt_days = 0
    /\ fmt_pc = "idle"
    /\ fmt_result = None
    /\ fmt_error = "none"

\* ------------------------------------------------------ http.py: constants
HTML_PLACEHOLDER ==
    "<!doctype html><body><h2>Generating, please wait...</h2></body>"

METRICS_PLACEHOLDER ==
    "# Generating, please wait...\n"

NoDocument ==
    "<none>"

Handlers ==
    1..NumHandlers

Paths ==
    {"/", "/metrics", "/favicon.ico"}

\* Outcome of one call of generate_metrics / generate_html: it returns, or an
\* exception leaves it (regenerate_output has no handler around these calls).
GenOutcomes ==
    {"return", "raise"}

\* ------------------------------------------------- api_client.make_client
MakeClient(token) ==
    IF token THEN "client" ELSE "SystemExit"

\* ------------------------------------------- http.py: generate_* functions
\* (variant: a document rendered anew, of another length)
GenerateHtml_Rendered(client) ==
    "<!doctype html><html></html>"

\* def generate_html(client): return html_page
GenerateHtml(client) ==
    html_page

GenerateMetrics(client) ==
    metrics_page

\* --------------------------------------------------------------- Init
InitService ==
    /\ exit_event = FALSE
    /\ html_page = HTML_PLACEHOLDER
    /\ metrics_page = METRICS_PLACEHOLDER
    /\ github_token \in BOOLEAN
    /\ sched_pc = "not_started"
    /\ cycle = 0
    /\ html_cycle = 0
    /\ metrics_cycle = 0
    /\ make_client_exited = FALSE
    /\ raised_at = "none"
    /\ main_pc = "L180"
    /\ server_pc = "not_started"
    /\ shutdown_request = FALSE
    /\ h_pc = [h \in Handlers |-> "idle"]
    /\ h_path = [h \in Handlers |-> "/"]
    /\ h_status = [h \in Handlers |-> 0]
    /\ h_length = [h \in Handlers |-> 0]
    /\ h_body = [h \in Handlers |-> NoDocument]
    /\ h_stale = [h \in Handlers |-> FALSE]

\* the service not running
IdleService ==
    /\ exit_event = FALSE
    /\ html_page = HTML_PLACEHOLDER
    /\ metrics_page = METRICS_PLACEHOLDER
    /\ github_token = TRUE
    /\ sched_pc = "not_started"
    /\ cycle = 0
    /\ html_cycle = 0
    /\ metrics_cycle = 0
    /\ make_client_exited = FALSE
    /\ raised_at = "none"
    /\ main_pc = "not_started"
    /\ server_pc = "not_started"
    /\ shutdown_request = FALSE
    /\ h_pc = [h \in Handlers |-> "idle"]
    /\ h_path = [h \in Handlers |-> "/"]
    /\ h_status = [h \in Handlers |-> 0]
    /\ h_length = [h \in Handlers |-> 0]
    /\ h_body = [h \in Handlers |-> NoDocument]
    /\ h_stale = [h \in Handlers |-> FALSE]

handler_vars ==
    <<h_pc, h_path, h_status, h_length, h_body, h_stale>>

main_vars ==
    <<main_pc, server_pc, shutdown_request>>

\* ------------------------------------- regenerate_output (http.py 135-146)
\* (variant: the handler sets the event but forgets to return)
OnSystemExit_FallsThrough ==
    /\ exit_event' = TRUE
    /\ make_client_exited' = TRUE
    /\ sched_pc' = "L142"

\* except SystemExit: exit_event.set(); return
OnSystemExit ==
    /\ exit_event' = TRUE
    /\ make_client_exited' = TRUE
    /\ sched_pc' = "returned"

\* client = make_client(), inside try/except SystemExit
SchedMakeClient ==
    /\ sched_pc = "L138"
    /\ IF MakeClient(github_token) = "SystemExit"
         THEN OnSystemExit
         ELSE /\ sched_pc' = "L142"
              /\ UNCHANGED <<exit_event, make_client_exited>>
    /\ UNCHANGED <<outside_service,
                   html_page, metrics_page, github_token, cycle, html_cycle,
                   metrics_cycle, raised_at, main_vars, handler_vars>>

\* an assignment to the global a path is served from: every handler that
\* has read it in do_HEAD and not yet in do_GET will read another assignment
Reassigned(path) ==
    [h \in Handlers |->
       h_stale[h] \/ (h_pc[h] = "write" /\ h_path[h] = path)]

\* metrics_page = generate_metrics(client)   (lines 142 and 145)
SchedGenMetrics(here, next) ==
    /\ sched_pc = here
    /\ \E outcome \in GenOutcomes :
         IF outcome = "return"
           THEN /\ metrics_page' = GenerateMetrics("client")
                /\ metrics_cycle' = cycle
                /\ h_stale' = Reassigned("/metrics")
                /\ sched_pc' = next
                /\ UNCHANGED raised_at
           ELSE /\ sched_pc' = "raised"
                /\ raised_at' = here
                /\ UNCHANGED <<metrics_page, metrics_cycle, h_stale>>
    /\ UNCHANGED <<outside_service,
                   exit_event, html_page, github_token, cycle, html_cycle,
                   make_client_exited, main_vars,
                   h_pc, h_path, h_status, h_length, h_body>>

\* html_page = generate_html(client)   (lines 143 and 146)
SchedGenHtml(here, next) ==
    /\ sched_pc = here
    /\ \E outcome \in GenOutcomes :
         IF outcome = "return"
           THEN /\ html_page' = GenerateHtml("client")
                /\ html_cycle' = cycle
                /\ h_stale' = Reassigned("/")
                /\ sched_pc' = next
                /\ UNCHANGED raised_at
           ELSE /\ sched_pc' = "raised"
                /\ raised_at' = here
                /\ UNCHANGED <<html_page, html_cycle, h_stale>>
    /\ UNCHANGED <<outside_service,
                   exit_event, metrics_page, github_token, cycle,
                   metrics_cycle, make_client_exited, main_vars,
                   h_pc, h_path, h_status, h_length, h_body>>

SchedFirstMetrics ==
    SchedGenMetrics("L142", "L143")

SchedFirstHtml ==
    SchedGenHtml("L143", "L144")

SchedLoopMetrics ==
    SchedGenMetrics("L145", "L146")

SchedLoopHtml ==
    SchedGenHtml("L146", "L144")

\* (variant: the wait ignores the event and always times out)
WaitReturns_Never(event) ==
    FALSE

\* while not exit_event.wait(60): the wait returns True as soon as the event
\* is set, and False when 60 seconds passed without it.
WaitReturns(event) ==
    event

SchedWait ==
    /\ sched_pc = "L144"
    /\ IF WaitReturns(exit_event)
         THEN /\ sched_pc' = "returned"
              /\ UNCHANGED cycle
         ELSE /\ cycle < MaxCycles
              /\ sched_pc' = "L145"
              /\ cycle' = cycle + 1
    /\ UNCHANGED <<outside_service,
                   exit_event, html_page, metrics_page, github_token,
                   html_cycle, metrics_cycle, make_client_exited, raised_at,
                   main_vars, handler_vars>>

SchedTerminated ==
    sched_pc \in {"returned", "raised"}

sched_vars ==
    <<sched_pc, cycle, html_cycle, metrics_cycle, make_client_exited,
      raised_at>>

\* ------------------------------------------------ main (http.py 178-193)
\* background_update = Thread(target=regenerate_output); .start()
MainStartBackground ==
    /\ main_pc = "L180"
    /\ main_pc' = "L182"
    /\ sched_pc = "not_started"
    /\ sched_pc' = "L138"
    /\ cycle' = 1
    /\ UNCHANGED <<outside_service,
                   exit_event, html_page, metrics_page, github_token,
                   html_cycle, metrics_cycle, make_client_exited, raised_at,
                   server_pc, shutdown_request, handler_vars>>

\* with ThreadingHTTPServer(...) as server: serve = Thread(...); serve.start()
MainStartServer ==
    /\ main_pc = "L182"
    /\ main_pc' = "L186"
    /\ server_pc' = "serving"
    /\ UNCHANGED <<outside_service,
                   exit_event, html_page, metrics_page, github_token,
                   sched_vars, shutdown_request, handler_vars>>

\* try: exit_event.wait()  -- returns once the event is set
MainWait ==
    /\ main_pc = "L186"
    /\ exit_event
    /\ main_pc' = "L190"
    /\ UNCHANGED <<outside_service,
                   exit_event, html_page, metrics_page, github_token,
                   sched_vars, server_pc, shutdown_request, handler_vars>>

\* except KeyboardInterrupt: pass  -- the interrupt arrives during the wait
MainKeyboardInterrupt ==
    /\ main_pc = "L186"
    /\ main_pc' = "L190"
    /\ UNCHANGED <<outside_service,
                   exit_event, html_page, metrics_page, github_token,
                   sched_vars, server_pc, shutdown_request, handler_vars>>

\* finally: exit_event.set()
MainSetExit ==
    /\ main_pc = "L190"
    /\ main_pc' = "L191"
    /\ exit_event' = TRUE
    /\ UNCHANGED <<outside_service,
                   html_page, metrics_page, github_token, sched_vars,
                   server_pc, shutdown_request, handler_vars>>

\* server.shutdown(): ask the serving loop to stop, then wait until it has
MainShutdownRequest ==
    /\ main_pc = "L191"
    /\ main_pc' = "L191_wait"
    /\ shutdown_request' = TRUE
    /\ UNCHANGED <<outside_service,
                   exit_event, html_page, metrics_page, github_token,
                   sched_vars, server_pc, handler_vars>>

MainShutdownReturns ==
    /\ main_pc = "L191_wait"
    /\ server_pc = "stopped"
    /\ main_pc' = "L192"
    /\ UNCHANGED <<outside_service,
                   exit_event, html_page, metrics_page, github_token,
                   sched_vars, server_pc, shutdown_request, handler_vars>>

\* serve.join()
MainJoinServe ==
    /\ main_pc = "L192"
    /\ server_pc = "stopped"
    /\ main_pc' = "L193"
    /\ UNCHANGED <<outside_service,
                   exit_event, html_page, metrics_page, github_token,
                   sched_vars, server_pc, shutdown_request, handler_vars>>

\* background_update.join()
JoinReturns(thread_terminated) ==
    thread_terminated

MainJoinBackground ==
    /\ main_pc = "L193"
    /\ JoinReturns(SchedTerminated)
    /\ main_pc' = "returned"
    /\ UNCHANGED <<outside_service,
                   exit_event, html_page, metrics_page, github_token,
                   sched_vars, server_pc, shutdown_request, handler_vars>>

\* server.serve_forever: the loop ends when shutdown was requested
ServerStop ==
    /\ server_pc = "serving"
    /\ shutdown_request
    /\ server_pc' = "stopped"
    /\ shutdown_request' = FALSE
    /\ UNCHANGED <<outside_service,
                   exit_event, html_page, metrics_page, github_token,
                   sched_vars, main_pc, handler_vars>>

\* ------------------------------- CIOverviewServer (http.py 149-175)
\* the serving loop accepts a connection and hands it to a handler thread
AcceptRequest(h) ==
    /\ server_pc = "serving"
    /\ h_pc[h] = "idle"
    /\ \E p \in Paths : h_path' = [h_path EXCEPT ![h] = p]
    /\ h_pc' = [h_pc EXCEPT ![h] = "do_HEAD"]
    /\ h_status' = [h_status EXCEPT ![h] = 0]
    /\ h_length' = [h_length EXCEPT ![h] = 0]
    /\ h_body' = [h_body EXCEPT ![h] = NoDocument]
    /\ h_stale' = [h_stale EXCEPT ![h] = FALSE]
    /\ UNCHANGED <<outside_service,
                   exit_event, html_page, metrics_page, github_token,
                   sched_vars, main_vars>>

\* do_HEAD: status line and headers
HeadStatus(path) ==
    IF path \in {"/", "/metrics"} THEN 200 ELSE 404

HeadDocument(path) ==
    IF path = "/" THEN html_page
    ELSE IF path = "/metrics" THEN metrics_page
    ELSE NoDocument

DoHead(h) ==
    /\ h_pc[h] = "do_HEAD"
    /\ h_status' = [h_status EXCEPT ![h] = HeadStatus(h_path[h])]
    /\ h_length' = [h_length EXCEPT ![h] =
                      IF HeadStatus(h_path[h]) = 200
                        THEN Len(HeadDocument(h_path[h])) ELSE 0]
    /\ h_pc' = [h_pc EXCEPT ![h] = "write"]
    /\ h_stale' = [h_stale EXCEPT ![h] = FALSE]
    /\ UNCHANGED <<outside_service,
                   exit_event, html_page, metrics_page, github_token,
                   sched_vars, main_vars, h_path, h_body>>

\* (variant: the two documents are swapped)
GetDocument_Swapped(path) ==
    IF path = "/" THEN metrics_page
    ELSE IF path = "/metrics" THEN html_page
    ELSE NoDocument

\* do_GET after self.do_HEAD(): self.wfile.write(...)
GetDocument(path) ==
    IF path = "/" THEN html_page
    ELSE IF path = "/metrics" THEN metrics_page
    ELSE NoDocument

DoGetWrite(h) ==
    /\ h_pc[h] = "write"
    /\ h_body' = [h_body EXCEPT ![h] = GetDocument(h_path[h])]
    /\ h_pc' = [h_pc EXCEPT ![h] = "done"]
    /\ UNCHANGED <<outside_service,
                   exit_event, html_page, metrics_page, github_token,
                   sched_vars, main_vars, h_path, h_status, h_length, h_stale>>

\* the handler thread ends; the slot serves a later connection
HandlerFinish(h) ==
    /\ h_pc[h] = "done"
    /\ h_pc' = [h_pc EXCEPT ![h] = "idle"]
    /\ h_stale' = [h_stale EXCEPT ![h] = FALSE]
    /\ UNCHANGED <<outside_service,
                   exit_event, html_page, metrics_page, github_token,
                   sched_vars, main_vars, h_path, h_status, h_length, h_body>>

\* ----------------------------------------------------------- specification
SchedStep ==
    \/ SchedMakeClient
    \/ SchedFirstMetrics
    \/ SchedFirstHtml
    \/ SchedWait
    \/ SchedLoopMetrics
    \/ SchedLoopHtml

MainStep ==
    \/ MainStartBackground
    \/ MainStartServer
    \/ MainWait
    \/ MainSetExit
    \/ MainShutdownRequest
    \/ MainShutdownReturns
    \/ MainJoinServe
    \/ MainJoinBackground

HandlerStep ==
    \E h \in Handlers :
        \/ AcceptRequest(h)
        \/ DoHead(h)
        \/ DoGetWrite(h)
        \/ HandlerFinish(h)

Init ==
    InitService /\ IdleConfig /\ IdleStatus /\ IdleLayout /\ IdleFormat

Next ==
    \/ SchedStep
    \/ MainStep
    \/ MainKeyboardInterrupt
    \/ ServerStop
    \/ HandlerStep

Spec ==
    Init /\ [][Next]_vars

\* Threads that can run do run; the interrupt and new connections are the
\* environment's and get no fairness.
FairSpec ==
    /\ Spec
    /\ WF_vars(SchedStep)
    /\ WF_vars(MainStep)
    /\ WF_vars(ServerStop)


\* ================================================== check discovery
\* ------------------------------------------------ bounded definition trees
DEFAULTENV ==
    <<"DEFAULTS", ".env">>

EnvKeys ==
    {"CHECK_NAME", "PR_REPO", "PR_BRANCH", "CI_NAME"}

\* ROLE/CONTAINER/CHECK.env files that may exist (a file name is its stem and
\* its suffix); the first MaxCheckFiles of them do.
CandidateCheckPaths ==
    << <<"r1", "c1", <<"a", ".env">> >>,
       <<"r2", "c2", <<"b", ".env">> >>,
       <<"r1", "c1", <<"c", ".env">> >>,
       <<"r2", "c1", <<"d", ".env">> >> >>

CheckPaths ==
    {CandidateCheckPaths[i] :
        i \in 1..(IF MaxCheckFiles < 4 THEN MaxCheckFiles ELSE 4)}

ContainerDirs ==
    {<<p[1], p[2]>> : p \in CheckPaths}

\* contents of a DEFAULTS.env at each level: absent ({}), or one of these
RootDefaultsChoices ==
    { {},
      {[PR_BRANCH |-> "main"]},
      {[PR_REPO |-> "o/x", PR_BRANCH |-> "main", CI_NAME |-> "ci0"]} }

RoleDefaultsChoices ==
    { {},
      {[PR_REPO |-> "o/y", PR_BRANCH |-> "rel"]} }

ContainerDefaultsChoices ==
    { {},
      {[PR_BRANCH |-> "dev", CHECK_NAME |-> "n0"]} }

OwnFileChoices ==
    { [CHECK_NAME |-> "n1", CI_NAME |-> "ci1"],
      [CHECK_NAME |-> "n2", PR_REPO |-> "o/x", PR_BRANCH |-> "own",
       CI_NAME |-> "ci2"],
      [CI_NAME |-> "ci3"] }

RolesFilterChoices ==
    { <<>>, <<"r1">> }

ContainersFilterChoices ==
    { <<>>, <<"c2">> }

ReposFilterChoices ==
    { <<>>, <<"o/x">>, <<"o/x", "o/y">> }

ChecksFilterChoices ==
    { <<>>, <<"n1", "n0">> }

TheOne(choice) ==
    CHOOSE d \in choice : TRUE

\* the tree: path (tuple of components below defs_dir) |-> parsed variables
BuildTree(root, role, rc, own) ==
    LET present == {<<DEFAULTENV>> : x \in root}
                   \cup {<<"r1", DEFAULTENV>> : x \in role}
                   \cup {<<q[1], q[2], DEFAULTENV>> :
                            q \in {q \in ContainerDirs : rc[q] # {}}}
                   \cup CheckPaths
    IN [p \in present |->
          IF p \in CheckPaths THEN own[p]
          ELSE IF Len(p) = 1 THEN TheOne(root)
          ELSE IF Len(p) = 2 THEN TheOne(role)
          ELSE TheOne(rc[<<p[1], p[2]>>])]

DefinitionTrees ==
    { BuildTree(root, role, rc, own) :
        root \in RootDefaultsChoices, role \in RoleDefaultsChoices,
        rc \in [ContainerDirs -> ContainerDefaultsChoices],
        own \in [CheckPaths -> OwnFileChoices] }

InitConfig ==
    /\ cfg_impl \in {"overview", "checks"}
    /\ env_files \in DefinitionTrees
    /\ f_roles \in (IF cfg_impl = "overview" THEN RolesFilterChoices ELSE {<<>>})
    /\ f_containers \in
         (IF cfg_impl = "overview" THEN ContainersFilterChoices ELSE {<<>>})
    /\ f_repos \in (IF cfg_impl = "overview" THEN ReposFilterChoices ELSE {<<>>})
    /\ f_checks \in (IF cfg_impl = "overview" THEN ChecksFilterChoices ELSE {<<>>})
    /\ ga_pc = "called"
    /\ pending = {}
    /\ name_table = EmptyDict
    /\ all_checks = EmptyDict
    /\ checks_list = <<>>
    /\ merged_of = EmptyDict
    /\ included = {}
    /\ raised_on = {}

\* ------------------------------------------------------- python helpers
Last(seq) ==
    seq[Len(seq)]

Front(seq) ==
    SubSeq(seq, 1, Len(seq) - 1)

\* x in list
In(x, list) ==
    \E i \in 1..Len(list) : list[i] = x

\* (variant: the earlier value is kept)
DictUpdate_KeepFirst(d, e) ==
    [k \in DOMAIN d \cup DOMAIN e |-> IF k \in DOMAIN d THEN d[k] ELSE e[k]]

\* d.update(e)
DictUpdate(d, e) ==
    [k \in DOMAIN d \cup DOMAIN e |-> IF k \in DOMAIN e THEN e[k] ELSE d[k]]

\* d.get(key, default)
DictGet(d, key, default) ==
    IF key \in DOMAIN d THEN d[key] ELSE default

\* filename.removesuffix(suffix)
RemoveSuffix(filename, suffix) ==
    IF filename[2] = suffix THEN filename[1] ELSE filename[1] \o filename[2]

\* os.path.exists(envpath)
PathExists(path) ==
    path \in DOMAIN env_files

\* ----------------------------- overview.get_all_checks (overview.py 107-140)
\* glob.glob(os.path.join(defs_dir, '*', '*', '*.env'))
GlobEnvFiles ==
    {path \in DOMAIN env_files : Len(path) = 3 /\ Last(path)[2] = ".env"}

\* the four files read for ROLE/CONTAINER/ENV, least specific first
LayerPaths(role, docker, env) ==
    << <<DEFAULTENV>>,
       <<role, DEFAULTENV>>,
       <<role, docker, DEFAULTENV>>,
       <<role, docker, env>> >>

\* for envpath in (...): if os.path.exists(envpath): check.update(parse(...))
RECURSIVE UpdateFromLayers(_, _, _)
UpdateFromLayers(check, layers, i) ==
    IF i > Len(layers) THEN check
    ELSE UpdateFromLayers(
             IF PathExists(layers[i])
               THEN DictUpdate(check, env_files[layers[i]])
               ELSE check,
             layers, i + 1)

\* (variant: an empty list lets nothing pass)
Filtered_EmptyBlocks(value, allow_list) ==
    ~In(value, allow_list)

\* `if roles and role not in roles: continue`
Filtered(value, allow_list) ==
    allow_list # <<>> /\ ~In(value, allow_list)

\* all_checks[(repo, branch)].append(name)
AppendCheck(table, key, name) ==
    IF key \in DOMAIN table
      THEN [table EXCEPT ![key] = Append(@, name)]
      ELSE table @@ (key :> <<name>>)

OverviewCall ==
    /\ cfg_impl = "overview"
    /\ ga_pc = "called"
    /\ pending' = GlobEnvFiles
    /\ ga_pc' = "loop"
    /\ UNCHANGED <<outside_config, cfg_impl, env_files, f_roles, f_containers,
                   f_repos, f_checks, name_table, all_checks, checks_list,
                   merged_of, included, raised_on>>

\* one iteration of the loop over the glob results, in any order
OverviewVisit ==
    /\ cfg_impl = "overview"
    /\ ga_pc = "loop"
    /\ \E env_path \in pending :
         LET role == env_path[1]
             docker == env_path[2]
             env == env_path[3]
             check == UpdateFromLayers(EmptyDict,
                                       LayerPaths(role, docker, env), 1)
         IN
         /\ pending' = pending \ {env_path}
         /\ IF \/ env = DEFAULTENV
               \/ Filtered(role, f_roles)
               \/ Filtered(docker, f_containers)
              THEN \* continue
                   UNCHANGED <<ga_pc, name_table, all_checks, merged_of,
                               included, raised_on>>
            ELSE IF ~({"PR_REPO", "PR_BRANCH", "CHECK_NAME"}
                        \subseteq DOMAIN check)
              THEN \* KeyError at line 133 leaves get_all_checks
                   /\ ga_pc' = "raised"
                   /\ raised_on' = {env_path}
                   /\ merged_of' = merged_of @@ (env_path :> check)
                   /\ UNCHANGED <<name_table, all_checks, included>>
            ELSE IF \/ Filtered(check["PR_REPO"], f_repos)
                    \/ Filtered(check["CHECK_NAME"], f_checks)
              THEN \* continue
                   /\ merged_of' = merged_of @@ (env_path :> check)
                   /\ UNCHANGED <<ga_pc, name_table, all_checks, included,
                                  raised_on>>
            ELSE IF "CI_NAME" \notin DOMAIN check
              THEN \* KeyError at line 138
                   /\ ga_pc' = "raised"
                   /\ raised_on' = {env_path}
                   /\ merged_of' = merged_of @@ (env_path :> check)
                   /\ UNCHANGED <<name_table, all_checks, included>>
            ELSE /\ name_table' =
                      DictUpdate(name_table,
                                 check["CHECK_NAME"] :> check["CI_NAME"])
                 /\ all_checks' =
                      AppendCheck(all_checks,
                                  <<check["PR_REPO"], check["PR_BRANCH"]>>,
                                  check["CHECK_NAME"])
                 /\ merged_of' = merged_of @@ (env_path :> check)
                 /\ included' = included \cup {env_path}
                 /\ UNCHANGED <<ga_pc, raised_on>>
    /\ UNCHANGED <<outside_config, cfg_impl, env_files, f_roles, f_containers,
                   f_repos, f_checks, checks_list>>

\* return all_checks, name_table
OverviewReturn ==
    /\ cfg_impl = "overview"
    /\ ga_pc = "loop"
    /\ pending = {}
    /\ ga_pc' = "returned"
    /\ UNCHANGED <<outside_config, cfg_impl, env_files, f_roles, f_containers,
                   f_repos, f_checks, pending, name_table, all_checks,
                   checks_list, merged_of, included, raised_on>>

\* ------------------------------- checks.get_all_checks (checks.py 89-123)
\* defaults = {path[:-1]: variables for path, variables in env_files
\*             if path[-1] == 'DEFAULTS.env'}
DefaultsTable ==
    LET dirs == {Front(path) : path \in {q \in DOMAIN env_files :
                                            Last(q) = DEFAULTENV}}
    IN [dir \in dirs |-> env_files[dir \o <<DEFAULTENV>>]]

\* the four check.update(...) calls of lines 113-116
MergeWithDefaults(defaults, role, container, variables) ==
    DictUpdate(
      DictUpdate(
        DictUpdate(
          DictUpdate(EmptyDict, DictGet(defaults, <<>>, EmptyDict)),
          DictGet(defaults, <<role>>, EmptyDict)),
        DictGet(defaults, <<role, container>>, EmptyDict)),
      variables)

\* env_files = list(process_gql_directory(...)): every file of the tree
ChecksCall ==
    /\ cfg_impl = "checks"
    /\ ga_pc = "called"
    /\ pending' = DOMAIN env_files
    /\ ga_pc' = "loop"
    /\ UNCHANGED <<outside_config, cfg_impl, env_files, f_roles, f_containers,
                   f_repos, f_checks, name_table, all_checks, checks_list,
                   merged_of, included, raised_on>>

\* one iteration of `for path, variables in env_files`
ChecksVisit ==
    /\ cfg_impl = "checks"
    /\ ga_pc = "loop"
    /\ \E path \in pending :
         /\ pending' = pending \ {path}
         /\ IF Last(path) = DEFAULTENV
              THEN \* continue
                   UNCHANGED <<ga_pc, checks_list, merged_of, included,
                               raised_on>>
              ELSE LET role == path[1]
                       container == path[2]
                       filename == path[3]
                       check == MergeWithDefaults(DefaultsTable, role,
                                                  container, env_files[path])
                   IN
                   /\ merged_of' = merged_of @@ (path :> check)
                   /\ IF {"CHECK_NAME", "PR_REPO", "PR_BRANCH"}
                           \subseteq DOMAIN check
                        THEN /\ checks_list' =
                                  Append(checks_list,
                                         [short_name |->
                                            RemoveSuffix(filename, ".env"),
                                          name |-> check["CHECK_NAME"],
                                          repository |-> check["PR_REPO"],
                                          branch |-> check["PR_BRANCH"]])
                             /\ included' = included \cup {path}
                             /\ UNCHANGED <<ga_pc, raised_on>>
                        ELSE \* KeyError at lines 119-121
                             /\ ga_pc' = "raised"
                             /\ raised_on' = {path}
                             /\ UNCHANGED <<checks_list, included>>
    /\ UNCHANGED <<outside_config, cfg_impl, env_files, f_roles, f_containers,
                   f_repos, f_checks, name_table, all_checks>>

\* return checks
ChecksReturn ==
    /\ cfg_impl = "checks"
    /\ ga_pc = "loop"
    /\ pending = {}
    /\ ga_pc' = "returned"
    /\ UNCHANGED <<outside_config, cfg_impl, env_files, f_roles, f_containers,
                   f_repos, f_checks, pending, name_table, all_checks,
                   checks_list, merged_of, included, raised_on>>

NextConfig ==
    \/ OverviewCall
    \/ OverviewVisit
    \/ OverviewReturn
    \/ ChecksCall
    \/ ChecksVisit
    \/ ChecksReturn

ConfigInit ==
    IdleService /\ InitConfig /\ IdleStatus /\ IdleLayout /\ IdleFormat

SpecConfig ==
    ConfigInit /\ [][NextConfig]_vars

\* ================================================== get_check_statuses
\* A title, a repository name: sequences of characters.
WIP_MARKER ==
    <<"[", "W", "I", "P", "]">>

TitleChoices ==
    { <<"[", "W", "I", "P", "]", " ", "x">>,
      <<"x", " ", "[", "W", "I", "P", "]">>,
      <<"[", "w", "i", "p", "]", " ", "x">>,
      <<"f", "i", "x">> }

\* commit['status']: null, or the contexts reported for the commit
CommitStatusChoices ==
    { [null |-> TRUE, contexts |-> <<>>],
      [null |-> FALSE,
       contexts |-> << [context |-> "a", state |-> "SUCCESS", createdAt |-> 1] >>],
      [null |-> FALSE,
       contexts |-> << [context |-> "a", state |-> "FAILURE", createdAt |-> 1],
                       [context |-> "b", state |-> "PENDING", createdAt |-> 2],
                       [context |-> "a", state |-> "ERROR", createdAt |-> 2] >>] }

PullChoices ==
    [title : TitleChoices, isDraft : BOOLEAN, status : CommitStatusChoices]

\* response['repository']['pullRequests']['nodes']
Responses ==
    UNION { { [i \in 1..n |->
                 [number |-> i, title |-> f[i].title, isDraft |-> f[i].isDraft,
                  oid |-> i, status |-> f[i].status]] :
              f \in [1..n -> PullChoices] } : n \in 0..MaxPulls }

ChecksArgChoices ==
    { <<>>, <<"a", "b">>, <<"a", "a">> }

RepoArgChoices ==
    { <<"o", "/", "x">>, <<"o", "x">> }

\* NOW: the time the module was loaded, in ticks of half a second
NOW ==
    7

TicksPerSecond ==
    2

\* NOW.strftime('%Y-%m-%dT%H:%M:%SZ'): whole seconds, the fraction is dropped
Strftime(ticks) ==
    ticks \div TicksPerSecond

\* names bound at module level (imports, assignments, defs) in each module
ModuleGlobals(module) ==
    IF module = "terminal"
      THEN {"annotations", "it", "get_terminal_size", "Iterable",
            "CheckStatus", "Output", "TextOutput"}
    ELSE IF module = "http"
      THEN {"annotations", "BaseHTTPRequestHandler", "ThreadingHTTPServer",
            "dedent", "threading", "Client", "make_client", "version",
            "exit_event", "html_page", "metrics_page", "Output",
            "HtmlOutput", "generate_html", "generate_metrics",
            "regenerate_output", "CIOverviewServer", "main"}
    ELSE IF module = "overview"
      THEN {"argparse", "glob", "it", "math", "os", "shutil", "defaultdict",
            "Iterable", "Mapping", "datetime", "timedelta", "dedent",
            "Optional", "Union", "Literal", "Final", "TypedDict", "Client",
            "gql", "AIOHTTPTransport", "DocumentNode", "parse_env_file",
            "DEFAULTENV", "TIMEFORMAT", "NOW", "INDENT", "SEPARATOR",
            "GET_PR_STATUSES_GRAPHQL", "State", "VALID_STATUSES", "Check",
            "get_check_statuses", "get_all_checks", "output_check_table",
            "format_status", "format_repo_header", "format_check_header",
            "format_table_row", "format_empty_table", "main", "parse_args"}
      ELSE {"defaultdict", "datetime", "Literal", "TypedDict", "gql",
            "DocumentNode", "State", "VALID_STATUSES", "NOW",
            "GET_PR_STATUSES_GRAPHQL", "CheckStatus", "get_status_url",
            "get_check_statuses"}

InitStatus ==
    /\ st_impl \in {"overview", "pull_requests"}
    /\ st_repo \in RepoArgChoices
    /\ st_checks \in ChecksArgChoices
    /\ st_names = [a |-> "ci_a", b |-> "ci_b"]
    /\ response = <<>>
    /\ st_pc = "called"
    /\ st_i = 0
    /\ statuses = EmptyDict
    /\ st_error = "none"

\* str.startswith
StartsWith(str, prefix) ==
    /\ Len(str) >= Len(prefix)
    /\ SubSeq(str, 1, Len(prefix)) = prefix

\* repo.partition('/'): <<head, separator or empty, tail>>
Partition(str, sep) ==
    IF \E i \in 1..Len(str) : str[i] = sep
      THEN LET i == CHOOSE i \in 1..Len(str) :
                       str[i] = sep /\ \A j \in 1..(i - 1) : str[j] # sep
           IN <<SubSeq(str, 1, i - 1), <<sep>>, SubSeq(str, i + 1, Len(str))>>
      ELSE <<str, <<>>, <<>>>>

\* (variant: only the draft flag is looked at)
SkipPull_DraftOnly(pull) ==
    pull.isDraft

\* if pull['isDraft'] or pull['title'].startswith('[WIP]'): continue
SkipPull(pull) ==
    pull.isDraft \/ StartsWith(pull.title, WIP_MARKER)

\* {c['context']: c for c in commit['status']['contexts']} if commit['status']
\* else {}
RECURSIVE ContextsDict(_, _, _)
ContextsDict(dict, contexts, i) ==
    IF i > Len(contexts) THEN dict
    ELSE ContextsDict(DictUpdate(dict, contexts[i].context :> contexts[i]),
                      contexts, i + 1)

CommitContexts(status) ==
    IF status.null \/ status.contexts = <<>>
      THEN EmptyDict
      ELSE ContextsDict(EmptyDict, status.contexts, 1)

\* {'context': check, 'state': 'EXPECTED', 'createdAt': NOW.strftime(...)}
Fallback(check) ==
    [context |-> check, state |-> "EXPECTED", createdAt |-> Strftime(NOW)]

\* contexts.get(check, fallback) | {'repo': ..., 'pr': ..., ...}
StatusRecord(contexts, check, repo, pull, names_table) ==
    DictUpdate(DictGet(contexts, check, Fallback(check)),
               [repo |-> repo, pr |-> pull.number, commit_sha |-> pull.oid,
                ci_name |-> names_table[check]])

\* statuses[check].append(record), statuses being a defaultdict(list)
AppendStatus(table, check, record) ==
    IF check \in DOMAIN table
      THEN [table EXCEPT ![check] = Append(@, record)]
      ELSE table @@ (check :> <<record>>)

\* for check in checks: ... for one pull request
RECURSIVE ForChecks(_, _, _, _, _, _)
ForChecks(table, contexts, checks, j, repo, pull) ==
    IF j > Len(checks) THEN table
    ELSE ForChecks(AppendStatus(table, checks[j],
                                StatusRecord(contexts, checks[j], repo, pull,
                                             st_names)),
                   contexts, checks, j + 1, repo, pull)

\* owner, is_valid, repo_name = repo.partition('/'); if not is_valid: raise
StatusCall ==
    /\ st_pc = "called"
    /\ IF Partition(st_repo, "/")[2] = <<>>
         THEN st_pc' = "raised" /\ st_error' = "ValueError"
         ELSE st_pc' = "execute" /\ UNCHANGED st_error
    /\ UNCHANGED <<outside_status, st_impl, st_repo, st_checks, st_names,
                   response, st_i, statuses>>

\* response = client.execute(GET_PR_STATUSES_GRAPHQL, {...})
StatusExecute ==
    /\ st_pc = "execute"
    /\ response' \in Responses
    /\ st_i' = 1
    /\ st_pc' = "loop"
    /\ UNCHANGED <<outside_status, st_impl, st_repo, st_checks, st_names,
                   statuses, st_error>>

\* one iteration of `for pull in response[...]['nodes']`
StatusPull ==
    /\ st_pc = "loop"
    /\ st_i <= Len(response)
    /\ LET pull == response[st_i]
       IN IF SkipPull(pull)
            THEN \* continue
                 /\ st_i' = st_i + 1
                 /\ UNCHANGED <<st_pc, statuses, st_error>>
          ELSE IF /\ st_checks # <<>>
                  /\ ~({"NOW", "TIMEFORMAT"} \subseteq ModuleGlobals(st_impl))
            THEN \* NameError while building the first check's fallback
                 /\ st_pc' = "raised"
                 /\ st_error' = "NameError"
                 /\ UNCHANGED <<st_i, statuses>>
          ELSE /\ statuses' = ForChecks(statuses, CommitContexts(pull.status),
                                        st_checks, 1, st_repo, pull)
               /\ st_i' = st_i + 1
               /\ UNCHANGED <<st_pc, st_error>>
    /\ UNCHANGED <<outside_status, st_impl, st_repo, st_checks, st_names,
                   response>>

\* return statuses
StatusReturn ==
    /\ st_pc = "loop"
    /\ st_i > Len(response)
    /\ st_pc' = "returned"
    /\ UNCHANGED <<outside_status, st_impl, st_repo, st_checks, st_names,
                   response, st_i, statuses, st_error>>

NextStatus ==
    \/ StatusCall
    \/ StatusExecute
    \/ StatusPull
    \/ StatusReturn

StatusInit ==
    IdleService /\ IdleConfig /\ InitStatus /\ IdleLayout /\ IdleFormat

SpecStatus ==
    StatusInit /\ [][NextStatus]_vars

\* ================================================== output_check_table
\* the statuses of one check, as get_check_statuses collected them: pull
\* request i at position i (the first one possibly a two-digit number)
StatusListChoices ==
    UNION { { [i \in 1..n |->
                 [pr |-> IF wide /\ i = 1 THEN 10 ELSE i,
                  createdAt |-> f[i].createdAt, state |-> f[i].state]] :
              f \in [1..n -> [createdAt : {1, 2}, state : {"SUCCESS", "EXPECTED"}]],
              wide \in BOOLEAN } : n \in 1..MaxStatuses }

\* the attributes an instance of a class of terminal.py has: those of the
\* class body and of its bases (class Output: pass)
ClassAttributes(class) ==
    IF class = "TextOutput"
      THEN {"INDENT", "SEPARATOR", "repo_header", "check_header",
            "empty_table", "overview_table", "table_row", "format_status"}
      ELSE {}

InitLayout ==
    /\ lay_impl \in {"overview", "terminal"}
    /\ lay_input \in StatusListChoices
    /\ pr_statuses = lay_input
    /\ lay_columns \in 0..MaxColumns
    /\ lay_pc = IF lay_impl = "overview" THEN "L145" ELSE "L38"
    /\ prnum_len = 0
    /\ items_per_row = 0
    /\ lay_rows = <<>>
    /\ lay_error = "none"

\* (variant: an insertion that puts the element before its equals)
InsertDescending_BeforeTies(sorted, x) ==
    LET before == {k \in 1..Len(sorted) : sorted[k].createdAt > x.createdAt}
        n == Cardinality(before)
    IN SubSeq(sorted, 1, n) \o <<x>> \o SubSeq(sorted, n + 1, Len(sorted))

\* list.sort(key=..., reverse=True) keeps elements of equal key in their
\* original order: insert each element after all elements whose key is at
\* least as large
InsertDescending(sorted, x) ==
    LET before == {k \in 1..Len(sorted) : sorted[k].createdAt >= x.createdAt}
        n == Cardinality(before)
    IN SubSeq(sorted, 1, n) \o <<x>> \o SubSeq(sorted, n + 1, Len(sorted))

\* pr_statuses.sort(key=lambda c: c['createdAt'], reverse=True)
RECURSIVE SortByCreatedAt(_)
SortByCreatedAt(list) ==
    IF list = <<>> THEN <<>>
    ELSE InsertDescending(SortByCreatedAt(Front(list)), Last(list))

\* 1 + math.floor(math.log10(n)), for n >= 1
RECURSIVE DecimalDigits(_)
DecimalDigits(n) ==
    IF n < 10 THEN 1 ELSE 1 + DecimalDigits(n \div 10)

\* max(c['pr'] for c in pr_statuses)
MaxPr(list) ==
    CHOOSE m \in {list[k].pr : k \in 1..Len(list)} :
        \A k \in 1..Len(list) : list[k].pr <= m

\* shutil.get_terminal_size((80, 1)).columns: the fallback when unknown
TerminalWidth(columns) ==
    IF columns <= 0 THEN 80 ELSE columns

\* len(INDENT), len(SEPARATOR), len('#')
IndentLen ==
    2

SeparatorLen ==
    2

HashLen ==
    1

\* (terminal_width - 2*len(INDENT) + len(SEPARATOR)) //
\*     (len('#') + prnum_len + len(SEPARATOR))
ItemsPerRow(terminal_width, label_len) ==
    (terminal_width - 2 * IndentLen + SeparatorLen)
        \div (HashLen + label_len + SeparatorLen)

\* a // b of Python, the quotient rounded towards minus infinity, b # 0
FloorDiv(a, b) ==
    IF b > 0 THEN a \div b ELSE (0 - a) \div (0 - b)

\* it.groupby(enumerate(pr_statuses), key=lambda tpl: tpl[0] // items_per_row):
\* consecutive elements of equal key form one group
RECURSIVE GroupByRow(_, _, _, _)
GroupByRow(rows, list, k, per_row) ==
    IF k > Len(list) THEN rows
    ELSE LET key == FloorDiv(k - 1, per_row)
             cell == [status |-> list[k],
                      text |-> [width |-> prnum_len, number |-> list[k].pr]]
         IN IF rows # <<>> /\ FloorDiv(k - 2, per_row) = key
              THEN GroupByRow([rows EXCEPT ![Len(rows)] = Append(@, cell)],
                              list, k + 1, per_row)
              ELSE GroupByRow(Append(rows, <<cell>>), list, k + 1, per_row)

\* terminal.py line 38: self.overview_table_prep(pr_statuses), an attribute
\* neither TextOutput nor Output defines
TextOverviewTable ==
    /\ lay_pc = "L38"
    /\ "overview_table_prep"
          \notin ClassAttributes("TextOutput") \cup ClassAttributes("Output")
    /\ lay_pc' = "raised"
    /\ lay_error' = "AttributeError"
    /\ UNCHANGED <<outside_layout, lay_impl, lay_input, pr_statuses,
                   lay_columns, prnum_len, items_per_row, lay_rows>>

\* line 145
LayoutSort ==
    /\ lay_pc = "L145"
    /\ pr_statuses' = SortByCreatedAt(pr_statuses)
    /\ lay_pc' = "L146"
    /\ UNCHANGED <<outside_layout, lay_impl, lay_input, lay_columns,
                   prnum_len, items_per_row, lay_rows, lay_error>>

\* lines 146-149
LayoutMeasure ==
    /\ lay_pc = "L146"
    /\ prnum_len' = DecimalDigits(MaxPr(pr_statuses))
    /\ items_per_row' = ItemsPerRow(TerminalWidth(lay_columns), prnum_len')
    /\ lay_pc' = "L150"
    /\ UNCHANGED <<outside_layout, lay_impl, lay_input, pr_statuses,
                   lay_columns, lay_rows, lay_error>>

\* lines 150-155: one row printed per group; the key of the first element
\* divides by items_per_row
LayoutRows ==
    /\ lay_pc = "L150"
    /\ IF items_per_row = 0
         THEN /\ lay_pc' = "raised"
              /\ lay_error' = "ZeroDivisionError"
              /\ UNCHANGED lay_rows
         ELSE /\ lay_rows' = GroupByRow(<<>>, pr_statuses, 1, items_per_row)
              /\ lay_pc' = "returned"
              /\ UNCHANGED lay_error
    /\ UNCHANGED <<outside_layout, lay_impl, lay_input, pr_statuses,
                   lay_columns, prnum_len, items_per_row>>

NextLayout ==
    \/ TextOverviewTable
    \/ LayoutSort
    \/ LayoutMeasure
    \/ LayoutRows

LayoutInit ==
    IdleService /\ IdleConfig /\ IdleStatus /\ InitLayout /\ IdleFormat

SpecLayout ==
    LayoutInit /\ [][NextLayout]_vars

\* ================================================ format_status, get_status_url
\* VALID_STATUSES
VALID_STATUSES ==
    {"EXPECTED", "PENDING", "FAILURE", "ERROR", "SUCCESS"}

\* timedelta(days=1), in ticks: the time scale of the model takes one second
\* for a day
DAY ==
    TicksPerSecond

\* the keys a status record always has, and the ones it may lack
RequiredKeys ==
    {"state", "createdAt"}

OptionalKeys ==
    {"targetUrl", "repo", "pr", "commit_sha", "ci_name"}

\* status records: createdAt in whole seconds, as GitHub reports it
StatusChoices ==
    { [k \in RequiredKeys \cup keys |-> full[k]] :
        full \in [state : VALID_STATUSES, createdAt : 1..MaxCreatedAt,
                  targetUrl : {<<>>, <<"https://ci.example/log">>},
                  repo : {"o/x"}, pr : {12}, commit_sha : {"abc"},
                  ci_name : {"ci1"}],
        keys \in SUBSET OptionalKeys }

InitFormat ==
    /\ fmt_impl \in {"overview", "terminal", "http", "pull_requests"}
    /\ fmt_status \in StatusChoices
    /\ fmt_days \in {0, 1}
    /\ fmt_pc = "called"
    /\ fmt_result = None
    /\ fmt_error = "none"

\* str(n) and '{pr}'.format(pr=n): the decimal digits of n >= 0
RECURSIVE Str(_)
Str(n) ==
    LET digit == <<"0", "1", "2", "3", "4", "5", "6", "7", "8", "9">>[(n % 10) + 1]
    IN IF n < 10 THEN <<digit>> ELSE Append(Str(n \div 10), digit)

\* (variant: the target URL is taken whenever the key is there)
GetStatusUrl_AnyTarget(status) ==
    IF "targetUrl" \in DOMAIN status
      THEN Some(status["targetUrl"])
      ELSE IF {"repo", "pr"} \subseteq DOMAIN status
             THEN Some(<<"https://github.com/", status["repo"], "/pull/",
                         Str(status["pr"])>>)
             ELSE None

\* get_status_url: a truthy status.get('targetUrl'), or the pull request's
\* page, or None when .format(**status) raises KeyError
GetStatusUrl(status) ==
    IF "targetUrl" \in DOMAIN status /\ status["targetUrl"] # <<>>
      THEN Some(status["targetUrl"])
      ELSE IF {"repo", "pr"} \subseteq DOMAIN status
             THEN Some(<<"https://github.com/", status["repo"], "/pull/",
                         Str(status["pr"])>>)
             ELSE None

\* overview.py lines 165-175: the build log's address for a finished check,
\* None on KeyError
BuildLogUrl(status) ==
    IF /\ status["state"] \in {"SUCCESS", "FAILURE", "ERROR"}
       /\ {"repo", "pr", "commit_sha", "ci_name"} \subseteq DOMAIN status
      THEN Some(<<"https://ali-ci.cern.ch/alice-build-logs", "/",
                  status["repo"], "/", Str(status["pr"]), "/",
                  status["commit_sha"], "/", status["ci_name"], "/",
                  "pretty.html">>)
      ELSE None

\* the colour table of overview.format_status
OverviewColours ==
    [PENDING |-> "33", EXPECTED |-> "35", SUCCESS |-> "32",
     FAILURE |-> "31", ERROR |-> "31;1"]

\* the colour table of TextOutput.format_status
TerminalColours ==
    [PENDING |-> "33", EXPECTED |-> "90", SUCCESS |-> "32",
     ERROR |-> "31", FAILURE |-> "31;1"]

\* status['createdAt'] > (NOW - timedelta(days=recent_days)).strftime(...)
IsRecent(status, recent_days) ==
    status["createdAt"] > Strftime(NOW - recent_days * DAY)

\* pull_requests.get_status_url(status)
GetStatusUrlCall ==
    /\ fmt_impl = "pull_requests"
    /\ fmt_pc = "called"
    /\ fmt_result' = GetStatusUrl(fmt_status)
    /\ fmt_pc' = "returned"
    /\ UNCHANGED <<outside_format, fmt_impl, fmt_status, fmt_days, fmt_error>>

\* overview.format_status(status, text, recent_days)
OverviewFormatStatus ==
    /\ fmt_impl = "overview"
    /\ fmt_pc = "called"
    /\ fmt_result' = [url |-> BuildLogUrl(fmt_status),
                      colour |-> OverviewColours[fmt_status["state"]],
                      reverse_video |-> IsRecent(fmt_status, fmt_days)]
    /\ fmt_pc' = "returned"
    /\ UNCHANGED <<outside_format, fmt_impl, fmt_status, fmt_days, fmt_error>>

\* TextOutput.format_status(status, text): line 63 calls get_status_url, a
\* name terminal.py neither defines nor imports
TextFormatStatus ==
    /\ fmt_impl = "terminal"
    /\ fmt_pc = "called"
    /\ "get_status_url" \notin ModuleGlobals("terminal")
    /\ fmt_pc' = "raised"
    /\ fmt_error' = "NameError"
    /\ UNCHANGED <<outside_format, fmt_impl, fmt_status, fmt_days, fmt_result>>

\* HtmlOutput.format_status(status, text): line 116 calls get_status_url, a
\* name http.py neither defines nor imports
HtmlFormatStatus ==
    /\ fmt_impl = "http"
    /\ fmt_pc = "called"
    /\ "get_status_url" \notin ModuleGlobals("http")
    /\ fmt_pc' = "raised"
    /\ fmt_error' = "NameError"
    /\ UNCHANGED <<outside_format, fmt_impl, fmt_status, fmt_days, fmt_result>>

NextFormat ==
    \/ GetStatusUrlCall
    \/ OverviewFormatStatus
    \/ TextFormatStatus
    \/ HtmlFormatStatus

FormatInit ==
    IdleService /\ IdleConfig /\ IdleStatus /\ IdleLayout /\ InitFormat

SpecFormat ==
    FormatInit /\ [][NextFormat]_vars

\* ======================================================== claims: service
\* C1 (as claimed): in every reachable state the published HTML document and
\* the published metrics document come from the same refresh cycle, or are
\* both the initial placeholders.  regenerate_output assigns metrics_page and
\* html_page in two separate statements, so this is violated between them.
C1_SnapshotFromOneCycle ==
    html_cycle = metrics_cycle

\* C2 (as claimed): when generate_metrics or generate_html raises inside the
\* refresh loop, the published documents are those of the previous cycle and
\* the background-update thread is still alive (waiting for, or running, a
\* later cycle).  The loop has no exception handler, so the thread ends.
C2_LoopFailureKeepsSchedulerAlive ==
    raised_at \in {"L145", "L146"} =>
        /\ sched_pc \in {"L144", "L145", "L146"}
        /\ html_cycle = metrics_cycle

\* C3: when make_client exits for lack of GITHUB_TOKEN, the background-update
\* thread has set exit_event and returned; it never reaches the generation
\* statements, so both documents are still the initial placeholders, then and
\* ever after.
C3_ClientFailureIsTerminal ==
    make_client_exited =>
        /\ exit_event
        /\ sched_pc = "returned"
        /\ cycle = 1
        /\ html_cycle = 0
        /\ metrics_cycle = 0
        /\ html_page = HTML_PLACEHOLDER
        /\ metrics_page = METRICS_PLACEHOLDER

C3_Witness ==
    /\ make_client_exited
    /\ main_pc = "returned"
    /\ \E h \in Handlers : h_pc[h] = "done" /\ h_body[h] = HTML_PLACEHOLDER

\* C4: once exit_event is set, the background-update thread begins no further
\* refresh cycle and the event stays set; main returns only when the serving
\* loop has stopped and the background-update thread has terminated; and with
\* fair scheduling of the threads, main always returns after the event is set.
C4_CooperativeShutdown ==
    /\ [][exit_event => (exit_event' /\ cycle' = cycle)]_vars
    /\ [](main_pc = "returned" => (server_pc = "stopped" /\ SchedTerminated))
    /\ (exit_event ~> (main_pc = "returned"))

C4_Witness ==
    /\ exit_event
    /\ ~make_client_exited
    /\ cycle = MaxCycles
    /\ sched_pc = "returned"
    /\ server_pc = "stopped"
    /\ main_pc = "returned"

\* C5: every step of a request handler leaves html_page, metrics_page,
\* exit_event and the background-update thread untouched, and a finished
\* request has status 200 and the published HTML document for "/", status
\* 200 and the published metrics document for "/metrics", and status 404 and
\* no document for any other path.
C5_HandlersReadOnlyAndTotal ==
    [][\A h \in Handlers :
          (h_pc'[h] # h_pc[h]) =>
              /\ UNCHANGED <<html_page, metrics_page, exit_event, sched_vars>>
              /\ (h_pc'[h] = "done" =>
                    /\ (h_path'[h] = "/" =>
                          h_status'[h] = 200 /\ h_body'[h] = html_page)
                    /\ (h_path'[h] = "/metrics" =>
                          h_status'[h] = 200 /\ h_body'[h] = metrics_page)
                    /\ (h_path'[h] \notin {"/", "/metrics"} =>
                          h_status'[h] = 404 /\ h_body'[h] = NoDocument))
      ]_vars

C5_Witness ==
    /\ sched_pc = "L146"
    /\ \E h \in Handlers :
          h_pc[h] = "done" /\ h_path[h] = "/metrics" /\ h_status[h] = 200
    /\ \E h \in Handlers :
          h_pc[h] = "done" /\ h_path[h] = "/favicon.ico" /\ h_status[h] = 404

\* ================================================ claims: check discovery
\* C6: for every check file ROLE/CONTAINER/CHECK.env whose variables were
\* merged, by either get_all_checks, the merged dictionary has exactly the
\* keys defined by at least one of the four layers (root DEFAULTS.env, ROLE's,
\* ROLE/CONTAINER's, the file itself), each with the value of the most
\* specific layer that exists and defines it.
C6_MergedIsRightBiasedUnion ==
    \A p \in DOMAIN merged_of :
        LET layers == << <<DEFAULTENV>>,
                         <<p[1], DEFAULTENV>>,
                         <<p[1], p[2], DEFAULTENV>>,
                         p >>
            defining(k) == {i \in 1..4 : /\ layers[i] \in DOMAIN env_files
                                         /\ k \in DOMAIN env_files[layers[i]]}
            top(k) == CHOOSE i \in defining(k) : \A j \in defining(k) : j <= i
        IN /\ DOMAIN merged_of[p] = {k \in EnvKeys : defining(k) # {}}
           /\ \A k \in DOMAIN merged_of[p] :
                 merged_of[p][k] = env_files[layers[top(k)]][k]

C6_Witness ==
    /\ ga_pc = "returned"
    /\ \E p \in DOMAIN merged_of :
          /\ <<DEFAULTENV>> \in DOMAIN env_files
          /\ <<p[1], DEFAULTENV>> \in DOMAIN env_files
          /\ <<p[1], p[2], DEFAULTENV>> \in DOMAIN env_files
          /\ "PR_BRANCH" \in DOMAIN env_files[p]
          /\ merged_of[p]["PR_BRANCH"] = "own"
    /\ \E p \in DOMAIN merged_of :
          /\ <<p[1], DEFAULTENV>> \notin DOMAIN env_files
          /\ "PR_BRANCH" \notin DOMAIN env_files[p]
          /\ merged_of[p]["PR_BRANCH"] = "dev"
          /\ merged_of[p]["PR_REPO"] = "o/x"

\* C7 (as claimed): in a tree whose only malformed check files are ones that
\* lack CHECK_NAME, PR_REPO or PR_BRANCH after merging, and that has a
\* well-formed check file passing the filters, get_all_checks always returns,
\* and its result holds exactly the well-formed check files that pass the
\* filters.  Both get_all_checks index the merged dictionary directly, so
\* the KeyError of the first malformed file visited ends the whole call.
C7_MalformedCheckIsolated ==
    LET files == {p \in DOMAIN env_files : Len(p) = 3 /\ Last(p) # DEFAULTENV}
        merged(p) == UpdateFromLayers(EmptyDict,
                                      LayerPaths(p[1], p[2], p[3]), 1)
        wellformed(p) == {"CHECK_NAME", "PR_REPO", "PR_BRANCH"}
                            \subseteq DOMAIN merged(p)
        passes(p) == /\ ~Filtered(p[1], f_roles)
                     /\ ~Filtered(p[2], f_containers)
                     /\ ~Filtered(merged(p)["PR_REPO"], f_repos)
                     /\ ~Filtered(merged(p)["CHECK_NAME"], f_checks)
    IN (/\ ga_pc \in {"returned", "raised"}
        /\ \A p \in files : wellformed(p) => "CI_NAME" \in DOMAIN merged(p)
        /\ \E p \in files : wellformed(p) /\ passes(p))
       => /\ ga_pc = "returned"
          /\ included = {p \in files : wellformed(p) /\ passes(p)}

C17_ContentLengthMatchesBody ==
    \A h \in Handlers :
        (h_pc[h] = "done" /\ h_status[h] = 200)
          => h_length[h] = Len(h_body[h])

\* a response to GET / whose page was assigned again between the two reads
C17_Witness ==
    \E h \in Handlers :
        /\ h_pc[h] = "done"
        /\ h_path[h] = "/"
        /\ h_status[h] = 200
        /\ h_stale[h]
        /\ h_length[h] = Len(h_body[h])

\* ============================================ claims: get_check_statuses
\* C9 (as claimed): whenever get_check_statuses was given a response, it ends
\* by returning, for each requested check, exactly one record per pull request
\* that is neither a draft nor begins with [WIP]: the commit's context of that
\* name, or else an EXPECTED record created at NOW, and each carrying repo,
\* pr, commit_sha and ci_name.
C9_OneRecordPerOpenPull ==
    (st_pc \in {"returned", "raised"} /\ st_error # "ValueError") =>
        /\ st_pc = "returned"
        /\ \A j \in 1..Len(st_checks) :
              LET check == st_checks[j]
                  recs == IF check \in DOMAIN statuses
                            THEN statuses[check] ELSE <<>>
                  open == {i \in 1..Len(response) :
                              /\ ~response[i].isDraft
                              /\ ~StartsWith(response[i].title, WIP_MARKER)}
              IN /\ Len(recs) = Cardinality(open)
                 /\ \A i \in open :
                       \E r \in 1..Len(recs) :
                          /\ recs[r].pr = response[i].number
                          /\ recs[r].repo = st_repo
                          /\ recs[r].commit_sha = response[i].oid
                          /\ recs[r].ci_name = st_names[check]
                          /\ recs[r].context = check
                          /\ ((\A c \in 1..Len(response[i].status.contexts) :
                                  response[i].status.contexts[c].context # check)
                              => /\ recs[r].state = "EXPECTED"
                                 /\ recs[r].createdAt = NOW \div TicksPerSecond)

C11_ItemsPerRowAtLeastOne ==
    /\ lay_pc \in {"L150", "returned", "raised"} => items_per_row >= 1
    /\ lay_error # "ZeroDivisionError"

\* the statuses of the printed rows, row after row
RECURSIVE RowsConcat(_)
RowsConcat(rows) ==
    IF rows = <<>> THEN <<>>
    ELSE [k \in 1..Len(rows[1]) |-> rows[1][k].status] \o RowsConcat(Tail(rows))

\* the position of a status in the list the caller passed (pull request
\* numbers are distinct within one check)
InputPosition(status) ==
    CHOOSE k \in 1..Len(lay_input) : lay_input[k] = status

C15_RowsAreFaithfulChunks ==
    lay_pc = "returned" =>
      /\ RowsConcat(lay_rows) = pr_statuses
      /\ \A r \in 1..Len(lay_rows) :
            IF r < Len(lay_rows)
              THEN Len(lay_rows[r]) = items_per_row
              ELSE Len(lay_rows[r]) >= 1 /\ Len(lay_rows[r]) <= items_per_row
      /\ GroupByRow(<<>>, pr_statuses, 1, items_per_row) = lay_rows

\* ===================================================== claims: formatting
\* C13 (as claimed): every renderer, called on a status, marks it recent if
\* and only if its createdAt is strictly newer than the cutoff (NOW minus
\* the recent window, to the second), so the text and HTML renderers agree.
\* All three compare with a strict >, but TextOutput.format_status and
\* HtmlOutput.format_status end in NameError before they compare.
C13_RecentIffStrictlyNewer ==
    (fmt_impl \in {"overview", "terminal", "http"}
       /\ fmt_pc \in {"returned", "raised"})
      => /\ fmt_pc = "returned"
         /\ fmt_result.reverse_video
              <=> (fmt_status["createdAt"] * TicksPerSecond
                     > ((NOW - fmt_days * DAY) \div TicksPerSecond)
                         * TicksPerSecond)

\* C14 (as claimed): every text rendering path colours a status by one
\* table: EXPECTED grey (90), PENDING yellow (33), SUCCESS green (32),
\* FAILURE bold red (31;1), ERROR red (31).  That is the table of
\* terminal.py; overview.py has EXPECTED magenta (35), FAILURE red and
\* ERROR bold red.
C14_OneColourTable ==
    LET claimed == [EXPECTED |-> "90", PENDING |-> "33", SUCCESS |-> "32",
                    FAILURE |-> "31;1", ERROR |-> "31"]
    IN (fmt_impl \in {"overview", "terminal"} /\ fmt_pc = "returned")
         => /\ fmt_result.colour = claimed[fmt_status["state"]]
            /\ fmt_result.colour = TerminalColours[fmt_status["state"]]

\* C16: get_status_url always returns: the record's targetUrl when it has a
\* non-empty one, else the pull request's page when the record has both repo
\* and pr, else None.
C16_StatusUrlPreference ==
    (fmt_impl = "pull_requests" /\ fmt_pc # "called")
      => /\ fmt_pc = "returned"
         /\ fmt_error = "none"
         /\ LET has(key) == key \in DOMAIN fmt_status
                target == has("targetUrl") /\ Len(fmt_status["targetUrl"]) > 0
            IN /\ target => fmt_result = Some(fmt_status["targetUrl"])
               /\ (~target /\ has("repo") /\ has("pr"))
                    => /\ fmt_result.some
                       /\ fmt_result.url[1] = "https://github.com/"
                       /\ fmt_result.url[2] = fmt_status["repo"]
                       /\ fmt_result.url[3] = "/pull/"
                       /\ fmt_result.url[4] = <<"1", "2">>
                       /\ Len(fmt_result.url) = 4
               /\ (~target /\ ~(has("repo") /\ has("pr")))
                    => fmt_result = None

\* get_status_url fell back to the pull request's page for a record whose
\* targetUrl is the empty string
C16_Witness ==
    /\ fmt_impl = "pull_requests"
    /\ fmt_pc = "returned"
    /\ "targetUrl" \in DOMAIN fmt_status
    /\ fmt_status["targetUrl"] = <<>>
    /\ fmt_result.some
    /\ fmt_result.url[1] = "https://github.com/"

====
